---------------------------- MODULE Spec2Model ----------------------------
(***************************************************************************)
(* BitDogLab datalogger (sd_card.c): debounced buttons, joystick motion    *)
(* detection, LED / buzzer / OLED feedback and the SD card event log.      *)
(*                                                                         *)
(* Five specifications over the same variables:                            *)
(*   Spec          one power-on: main() and its polling loop, the buttons  *)
(*                 changing under it, storage operations failing;          *)
(*   RebootSpec    the same with power cycles that keep the card's         *)
(*                 contents, each power-on running through its first loop  *)
(*                 cycle;                                                  *)
(*   PollSpec      is_button_pressed applied to button A at arbitrary      *)
(*                 times;                                                  *)
(*   ScenarioSpec  a few polls of button A written down one by one,        *)
(*                 starting 50 ms after an accepted edge;                  *)
(*   JoySpec       the motion check of the loop (throttle + dead-zone)     *)
(*                 applied at arbitrary times to arbitrary samples.        *)
(***************************************************************************)
EXTENDS Integers, Sequences, FiniteSets

\* === Pin definitions (sd_card.c:24-27) ===
RED_LED == 13
GREEN_LED == 11
BLUE_LED == 12
BUZZER == 21

\* === Configuration constants (sd_card.c:46-51) ===
DEBOUNCE_MS == 50
LED_DURATION_MS == 300
LOOP_DELAY_MS == 50
JOY_MIN_THRESHOLD == 1000
JOY_MAX_THRESHOLD == 3000
ADC_MAX_VALUE == 4095

\* sleep_ms(1000) after init_oled, and the longest wait for the USB console
INIT_DELAY_MS == 1000
USB_WAIT_MS == 3000

\* === Bounds of the model ===
\* loop cycles explored per power-on
MaxCycles == 1
\* power-ons explored (the first one included)
MaxBoots == 2
\* lines the card has room for: a write to a full card is short
MaxLog == 3
\* the last instant of the unit specifications (ms)
MaxUnitTime == 160
\* the last instant of the motion-check specification (ms)
MaxJoyTime == 700
\* polls of a scenario
MaxPolls == 3

VARIABLES
    pc,                   \* position of main(): boot, pollA, holdA, pollB, holdB, joy, holdJ, sleep
    now,                  \* to_ms_since_boot(get_absolute_time())
    gpio_a, gpio_b,       \* level of the button pins (pull-up: TRUE is released)
    sample,               \* << x, y >> the ADC presents at this cycle's motion check, << >> before it
    sd_card_ready,
    last_button_time_a, last_button_time_b, last_joystick_time,
    last_button_a_state, last_button_b_state,
    current_time,         \* main's local of line 316
    led_pin,              \* the pin blink_led / activate_buzzer is holding
    pins,                 \* output pins driven high
    oled,                 \* the three text lines on the display
    disk,                 \* log file as the card holds it (survives power loss)
    unsynced,             \* lines written since the last successful f_sync
    boots, cycles,
    \* --- history variables (record what happened; the program reads none) ---
    diag,                 \* last message of log_event on the diagnostic stream
    sink,                 \* what the last log_event call did
    n_writes,             \* f_write calls of this session
    write_failed,         \* a log_event of this session failed its write
    hdr,                  \* what init_sd_card's header write did
    mounted,              \* f_mount and f_open both succeeded at this power-on
    cyc,                  \* this loop cycle: edges accepted, events emitted
    ret,                  \* last return value of is_button_pressed / motion check
    prev_raw,             \* raw button state seen by the previous poll (PollSpec)
    accepted_at,          \* time of the last poll that returned true (PollSpec)
    n_true,               \* polls / checks that returned true (unit specifications)
    rejected,             \* the time guard has turned down a rising edge / a deflection (unit specifications)
    polls                 \* the polls of a scenario: time, raw state read, state tracked before, return value

vars == << pc, now, gpio_a, gpio_b, sample, sd_card_ready,
           last_button_time_a, last_button_time_b, last_joystick_time,
           last_button_a_state, last_button_b_state, current_time, led_pin,
           pins, oled, disk, unsynced, boots, cycles,
           diag, sink, n_writes, write_failed, hdr, mounted, cyc, ret,
           prev_raw, accepted_at, n_true, rejected, polls >>

-----------------------------------------------------------------------------
\* uint32_t (a - b) > w.  The clock values of the model stay far below 2^31,
\* so when a < b the wrapped difference 2^32 - (b - a) exceeds every window.
ElapsedExceeds(a, b, w) == IF a >= b THEN a - b > w ELSE TRUE

-----------------------------------------------------------------------------
(* Storage collaborator (FatFs, lib/FatFs_SPI: not part of the sources at   *)
(* hand).  A file is what the card holds plus what was written since the   *)
(* last successful f_sync; every operation either succeeds or fails, and a *)
(* write may be short (FR_OK with fewer bytes than asked: the card is full).*)
HeaderLine == [kind |-> "header", ev |-> "Event", ts |-> 0]

File(d, u) == [disk |-> d, unsynced |-> u]

f_size(file) == Len(file.disk) + Len(file.unsynced)

HasRoom(file) == f_size(file) < MaxLog

WriteOutcomes(file) == IF HasRoom(file) THEN {"ok", "err", "short"} ELSE {"err", "short"}

SyncOutcomes == {"ok", "err"}

\* f_write: fr, whether bytes_written = strlen(line), and the file afterwards
f_write(file, line, outcome) ==
    CASE outcome = "ok" ->
            [fr |-> "FR_OK", complete |-> TRUE,
             file |-> File(file.disk, Append(file.unsynced, line))]
      [] outcome = "short" ->
            [fr |-> "FR_OK", complete |-> FALSE,
             file |-> IF HasRoom(file)
                      THEN File(file.disk,
                                Append(file.unsynced, [line EXCEPT !.kind = "partial"]))
                      ELSE file]
      [] OTHER ->
            [fr |-> "FR_DISK_ERR", complete |-> FALSE, file |-> file]

\* f_puts: the string is appended, or EOF is returned and nothing is
f_puts(file, line, outcome) ==
    IF outcome = "ok"
    THEN [rc |-> 0, file |-> File(file.disk, Append(file.unsynced, line))]
    ELSE [rc |-> -1, file |-> file]

\* f_sync: on success everything written so far is on the card
f_sync(file, outcome) ==
    IF outcome = "ok"
    THEN [fr |-> "FR_OK", file |-> File(file.disk \o file.unsynced, << >>)]
    ELSE [fr |-> "FR_DISK_ERR", file |-> file]

-----------------------------------------------------------------------------
\* the line of log_event formatted without its timestamp
FormatLine_no_timestamp(event, timestamp) == [kind |-> "record", ev |-> event, ts |-> 0]

\* the line of log_event with the timestamp cut to its low 10 bits
FormatLine_narrow(event, timestamp) ==
    [kind |-> "record", ev |-> event, ts |-> timestamp % 1024]

\* snprintf(line, sizeof(line), "%s,%lu\n", event, timestamp)
FormatLine(event, timestamp) == [kind |-> "record", ev |-> event, ts |-> timestamp]

\* init_sd_card with the return of line 142 left out: a failed f_open goes on
init_sd_card_ignores_open(file, mount, open, puts, sync) ==
    IF mount # "ok"
    THEN [ret |-> FALSE, file |-> file, hdr |-> "none", mounted |-> FALSE]
    ELSE [ret |-> TRUE, file |-> file, hdr |-> "none", mounted |-> (open = "ok")]

\* init_sd_card: mount, open for append, header if the file is empty.
\* The results of f_puts and f_sync are not looked at.
init_sd_card(file, mount, open, puts, sync) ==
    IF mount # "ok"
    THEN [ret |-> FALSE, file |-> file, hdr |-> "none", mounted |-> FALSE]
    ELSE IF open # "ok"
    THEN [ret |-> FALSE, file |-> file, hdr |-> "none", mounted |-> FALSE]
    ELSE IF f_size(file) = 0
    THEN LET p == f_puts(file, HeaderLine, puts)
             s == f_sync(p.file, sync)
         IN  [ret |-> TRUE, file |-> s.file,
              hdr |-> IF p.rc < 0 THEN "puts_failed"
                      ELSE IF s.fr # "FR_OK" THEN "sync_failed" ELSE "ok",
              mounted |-> TRUE]
    ELSE [ret |-> TRUE, file |-> file, hdr |-> "none", mounted |-> TRUE]

\* log_event with line 174 left out: a failed write leaves sd_card_ready set
log_event_keeps_ready(event, ready, timestamp, file, wr, sy) ==
    IF ~ready
    THEN [ready |-> ready, file |-> file, diag |-> "not_ready",
          attempted |-> FALSE, wr |-> "none", sy |-> "none"]
    ELSE LET line == FormatLine(event, timestamp)
             w == f_write(file, line, wr)
         IN  IF w.fr # "FR_OK" \/ ~w.complete
             THEN [ready |-> ready, file |-> w.file, diag |-> "write_error",
                   attempted |-> TRUE, wr |-> wr, sy |-> "none"]
             ELSE LET s == f_sync(w.file, sy)
                  IN  [ready |-> ready, file |-> s.file, diag |-> "logged",
                       attempted |-> TRUE, wr |-> wr, sy |-> sy]

\* log_event: the new sd_card_ready, the file afterwards, the message on the
\* diagnostic stream and what was done (attempted: f_write was called).
log_event(event, ready, timestamp, file, wr, sy) ==
    IF ~ready
    THEN [ready |-> ready, file |-> file, diag |-> "not_ready",
          attempted |-> FALSE, wr |-> "none", sy |-> "none"]
    ELSE LET line == FormatLine(event, timestamp)
             w == f_write(file, line, wr)
         IN  IF w.fr # "FR_OK" \/ ~w.complete
             THEN [ready |-> FALSE, file |-> w.file, diag |-> "write_error",
                   attempted |-> TRUE, wr |-> wr, sy |-> "none"]
             ELSE LET s == f_sync(w.file, sy)
                  IN  [ready |-> ready, file |-> s.file, diag |-> "logged",
                       attempted |-> TRUE, wr |-> wr, sy |-> sy]

\* display_event: the three lines drawn
display_event(message, ready) ==
    [l1 |-> "EVENT DETECTED", l2 |-> message,
     l3 |-> IF ready THEN "SD: OK" ELSE "SD: ERROR"]

\* is_button_pressed with line 208 left out: a poll that returns false does
\* not store the state it read
is_button_pressed_no_track(level, last_state, last_time, t) ==
    LET current_state == ~level
    IN  IF current_state /\ ~last_state /\ ElapsedExceeds(t, last_time, DEBOUNCE_MS)
        THEN [ret |-> TRUE, last_state |-> current_state, last_time |-> t]
        ELSE [ret |-> FALSE, last_state |-> last_state, last_time |-> last_time]

\* is_button_pressed storing the time of a suppressed edge too
is_button_pressed_restarts_window(level, last_state, last_time, t) ==
    LET current_state == ~level
    IN  IF current_state /\ ~last_state /\ ElapsedExceeds(t, last_time, DEBOUNCE_MS)
        THEN [ret |-> TRUE, last_state |-> current_state, last_time |-> t]
        ELSE [ret |-> FALSE, last_state |-> current_state,
              last_time |-> IF current_state /\ ~last_state THEN t ELSE last_time]

\* is_button_pressed comparing the elapsed time with >=
is_button_pressed_inclusive(level, last_state, last_time, t) ==
    LET current_state == ~level
    IN  IF current_state /\ ~last_state /\ ElapsedExceeds(t, last_time, DEBOUNCE_MS - 1)
        THEN [ret |-> TRUE, last_state |-> current_state, last_time |-> t]
        ELSE [ret |-> FALSE, last_state |-> current_state, last_time |-> last_time]

\* is_button_pressed with a window of 2 * DEBOUNCE_MS
is_button_pressed_wide_window(level, last_state, last_time, t) ==
    LET current_state == ~level
    IN  IF current_state /\ ~last_state /\ ElapsedExceeds(t, last_time, 2 * DEBOUNCE_MS)
        THEN [ret |-> TRUE, last_state |-> current_state, last_time |-> t]
        ELSE [ret |-> FALSE, last_state |-> current_state, last_time |-> last_time]

\* is_button_pressed: return value and the tracker afterwards
is_button_pressed(level, last_state, last_time, t) ==
    LET current_state == ~level     \* active low
    IN  IF current_state /\ ~last_state /\ ElapsedExceeds(t, last_time, DEBOUNCE_MS)
        THEN [ret |-> TRUE, last_state |-> current_state, last_time |-> t]
        ELSE [ret |-> FALSE, last_state |-> current_state, last_time |-> last_time]

\* check_joystick_movement comparing with <= and >=
check_joystick_movement_inclusive(x, y) ==
    x <= JOY_MIN_THRESHOLD \/ x >= JOY_MAX_THRESHOLD \/
    y <= JOY_MIN_THRESHOLD \/ y >= JOY_MAX_THRESHOLD

\* check_joystick_movement
check_joystick_movement(x, y) ==
    x < JOY_MIN_THRESHOLD \/ x > JOY_MAX_THRESHOLD \/
    y < JOY_MIN_THRESHOLD \/ y > JOY_MAX_THRESHOLD

\* the throttle test comparing with >=
ThrottleElapsed_inclusive(t, last) == ElapsedExceeds(t, last, LED_DURATION_MS - 1)

\* the throttle test of the main loop (line 317)
ThrottleElapsed(t, last) == ElapsedExceeds(t, last, LED_DURATION_MS)

-----------------------------------------------------------------------------
(* The firmware                                                            *)

NoSink == [event |-> "none", ts |-> 0, attempted |-> FALSE, wr |-> "none", sy |-> "none"]

NewCycle == [a |-> FALSE, b |-> FALSE, events |-> << >>, released |-> FALSE]

ReadyScreen == [l1 |-> "System Ready", l2 |-> "Waiting input", l3 |-> ""]

ErrorScreen == [l1 |-> "SD CARD ERROR", l2 |-> "Check card!", l3 |-> ""]

\* samples adc_read() returns in Spec: joystick at rest, pushed left, pushed up
JoyPositions == { <<2048, 2048>>, <<0, 2048>>, <<2048, ADC_MAX_VALUE>> }

UnitVarsUnchanged == UNCHANGED << ret, prev_raw, accepted_at, n_true, rejected, polls >>

\* memory after reset, before main() has run
Reset ==
    /\ sd_card_ready = FALSE
    /\ last_button_time_a = 0 /\ last_button_time_b = 0 /\ last_joystick_time = 0
    /\ last_button_a_state = FALSE /\ last_button_b_state = FALSE
    /\ current_time = 0 /\ led_pin = 0 /\ pins = {}
    /\ oled = [l1 |-> "", l2 |-> "", l3 |-> ""]
    /\ unsynced = << >>
    /\ cycles = 0
    /\ diag = "none" /\ sink = NoSink /\ n_writes = 0 /\ write_failed = FALSE
    /\ hdr = "none" /\ mounted = FALSE /\ cyc = NewCycle /\ sample = << >>
    /\ ret = FALSE /\ prev_raw = FALSE /\ accepted_at = 0 /\ n_true = 0 /\ rejected = FALSE
    /\ polls = << >>

\* power-on with an empty card and both buttons released
Init ==
    /\ Reset
    /\ pc = "boot" /\ now = 0
    /\ disk = << >> /\ boots = 1
    /\ gpio_a = TRUE /\ gpio_b = TRUE

\* main() up to the loop: USB wait, init_oled, sleep_ms(1000), init_gpio,
\* init_adc, sd_card_ready = init_sd_card(), the ready / error screen
Boot ==
    /\ pc = "boot"
    /\ \E usb \in {0, USB_WAIT_MS}, mount \in {"ok", "err"}, open \in {"ok", "err"},
          puts \in {"ok", "err"}, sync \in SyncOutcomes :
          LET r == init_sd_card(File(disk, unsynced), mount, open, puts, sync)
          IN  /\ now' = now + usb + INIT_DELAY_MS
              /\ sd_card_ready' = r.ret
              /\ disk' = r.file.disk
              /\ unsynced' = r.file.unsynced
              /\ hdr' = r.hdr
              /\ mounted' = r.mounted
              /\ oled' = IF r.ret THEN ReadyScreen ELSE ErrorScreen
    /\ pins' = {}
    /\ pc' = "pollA"
    /\ UNCHANGED << gpio_a, gpio_b, sample, last_button_time_a,
                    last_button_time_b, last_joystick_time, last_button_a_state,
                    last_button_b_state, current_time, led_pin, boots, cycles,
                    diag, sink, n_writes, write_failed, cyc >>
    /\ UnitVarsUnchanged

\* the call log_event(event) on the globals
Record(event, wr, sy) ==
    LET r == log_event(event, sd_card_ready, now, File(disk, unsynced), wr, sy)
    IN  /\ sd_card_ready' = r.ready
        /\ disk' = r.file.disk
        /\ unsynced' = r.file.unsynced
        /\ diag' = r.diag
        /\ sink' = [event |-> event, ts |-> now, attempted |-> r.attempted,
                    wr |-> r.wr, sy |-> r.sy]
        /\ n_writes' = IF r.attempted THEN n_writes + 1 ELSE n_writes
        /\ write_failed' = (write_failed \/ r.diag = "write_error")

\* blink_led giving its feedback only when the event could be logged
blink_led_needs_card(pin, event_msg, wr, sy) ==
    /\ Record(event_msg, wr, sy)
    /\ IF sd_card_ready'
       THEN /\ pins' = pins \cup {pin}
            /\ oled' = display_event(event_msg, sd_card_ready')
       ELSE UNCHANGED << pins, oled >>
    /\ led_pin' = pin

\* blink_led drawing the display before log_event has run
blink_led_draws_first(pin, event_msg, wr, sy) ==
    /\ pins' = pins \cup {pin}
    /\ oled' = display_event(event_msg, sd_card_ready)
    /\ Record(event_msg, wr, sy)
    /\ led_pin' = pin

\* blink_led up to its sleep_ms: pin on, log_event, display_event
blink_led(pin, event_msg, wr, sy) ==
    /\ pins' = pins \cup {pin}
    /\ Record(event_msg, wr, sy)
    /\ oled' = display_event(event_msg, sd_card_ready')
    /\ led_pin' = pin

\* activate_buzzer recording the name of button A's event
activate_buzzer_logs_button(wr, sy) ==
    /\ pins' = pins \cup {BUZZER}
    /\ Record("BUTTON_A_PRESSED", wr, sy)
    /\ oled' = display_event("BUZZER ACTIVATED", sd_card_ready')
    /\ led_pin' = BUZZER

\* activate_buzzer up to its sleep_ms
activate_buzzer(wr, sy) ==
    /\ pins' = pins \cup {BUZZER}
    /\ Record("BUZZER_ACTIVATED", wr, sy)
    /\ oled' = display_event("BUZZER ACTIVATED", sd_card_ready')
    /\ led_pin' = BUZZER

NoFeedback == UNCHANGED << pins, sd_card_ready, disk, unsynced, diag, sink,
                           n_writes, write_failed, oled, led_pin >>

\* button A's block testing B's tracked state instead of gpio_get(BUTTON_B)
PollA_tracked_other ==
    /\ pc = "pollA"
    /\ LET r == is_button_pressed(gpio_a, last_button_a_state, last_button_time_a, now)
       IN  /\ last_button_a_state' = r.last_state
           /\ last_button_time_a' = r.last_time
           /\ IF r.ret
              THEN /\ \E wr \in WriteOutcomes(File(disk, unsynced)), sy \in SyncOutcomes :
                        IF last_button_b_state
                        THEN /\ activate_buzzer(wr, sy)
                             /\ cyc' = [cyc EXCEPT !.a = TRUE,
                                            !.events = Append(@, "BothButtonsPressed")]
                        ELSE /\ blink_led(RED_LED, "BUTTON_A_PRESSED", wr, sy)
                             /\ cyc' = [cyc EXCEPT !.a = TRUE,
                                            !.events = Append(@, "ButtonAPressed")]
                   /\ pc' = "holdA"
              ELSE /\ NoFeedback
                   /\ cyc' = cyc
                   /\ pc' = "pollB"
    /\ UNCHANGED << now, gpio_a, gpio_b, sample, last_button_time_b,
                    last_joystick_time, last_button_b_state, current_time,
                    boots, cycles, hdr, mounted >>
    /\ UnitVarsUnchanged

\* lines 296-303: poll button A; on an accepted edge, buzzer if B reads
\* active, red LED otherwise
PollA ==
    /\ pc = "pollA"
    /\ LET r == is_button_pressed(gpio_a, last_button_a_state, last_button_time_a, now)
       IN  /\ last_button_a_state' = r.last_state
           /\ last_button_time_a' = r.last_time
           /\ IF r.ret
              THEN /\ \E wr \in WriteOutcomes(File(disk, unsynced)), sy \in SyncOutcomes :
                        IF ~gpio_b
                        THEN /\ activate_buzzer(wr, sy)
                             /\ cyc' = [cyc EXCEPT !.a = TRUE,
                                            !.events = Append(@, "BothButtonsPressed")]
                        ELSE /\ blink_led(RED_LED, "BUTTON_A_PRESSED", wr, sy)
                             /\ cyc' = [cyc EXCEPT !.a = TRUE,
                                            !.events = Append(@, "ButtonAPressed")]
                   /\ pc' = "holdA"
              ELSE /\ NoFeedback
                   /\ cyc' = cyc
                   /\ pc' = "pollB"
    /\ UNCHANGED << now, gpio_a, gpio_b, sample, last_button_time_b,
                    last_joystick_time, last_button_b_state, current_time,
                    boots, cycles, hdr, mounted >>
    /\ UnitVarsUnchanged

\* lines 306-313: the same for button B, green LED
PollB ==
    /\ pc = "pollB"
    /\ LET r == is_button_pressed(gpio_b, last_button_b_state, last_button_time_b, now)
       IN  /\ last_button_b_state' = r.last_state
           /\ last_button_time_b' = r.last_time
           /\ IF r.ret
              THEN /\ \E wr \in WriteOutcomes(File(disk, unsynced)), sy \in SyncOutcomes :
                        IF ~gpio_a
                        THEN /\ activate_buzzer(wr, sy)
                             /\ cyc' = [cyc EXCEPT !.b = TRUE,
                                            !.events = Append(@, "BothButtonsPressed")]
                        ELSE /\ blink_led(GREEN_LED, "BUTTON_B_PRESSED", wr, sy)
                             /\ cyc' = [cyc EXCEPT !.b = TRUE,
                                            !.events = Append(@, "ButtonBPressed")]
                   /\ pc' = "holdB"
              ELSE /\ NoFeedback
                   /\ cyc' = cyc
                   /\ pc' = "joy"
    /\ UNCHANGED << now, gpio_a, gpio_b, sample, last_button_time_a,
                    last_joystick_time, last_button_a_state, current_time,
                    boots, cycles, hdr, mounted >>
    /\ UnitVarsUnchanged

\* lines 316-319: the motion check; blue LED when the throttle has elapsed
\* and the joystick is outside the dead-zone
PollJoy ==
    /\ pc = "joy"
    /\ current_time' = now
    /\ \E p \in JoyPositions :
          /\ sample' = p
          /\ IF ThrottleElapsed(now, last_joystick_time) /\ check_joystick_movement(p[1], p[2])
             THEN /\ \E wr \in WriteOutcomes(File(disk, unsynced)), sy \in SyncOutcomes :
                       blink_led(BLUE_LED, "JOYSTICK_MOVED", wr, sy)
                  /\ cyc' = [cyc EXCEPT !.events = Append(@, "JoystickMoved")]
                  /\ pc' = "holdJ"
             ELSE /\ NoFeedback
                  /\ cyc' = cyc
                  /\ pc' = "sleep"
    /\ UNCHANGED << now, gpio_a, gpio_b, last_button_time_a,
                    last_button_time_b, last_joystick_time, last_button_a_state,
                    last_button_b_state, boots, cycles, hdr, mounted >>
    /\ UnitVarsUnchanged

\* the hold without its gpio_put(pin, 0): the indicator stays on
Hold_keeps_pin ==
    /\ pc \in {"holdA", "holdB", "holdJ"}
    /\ now' = now + LED_DURATION_MS
    /\ pins' = pins
    /\ last_joystick_time' = IF pc = "holdJ" THEN current_time ELSE last_joystick_time
    /\ pc' = CASE pc = "holdA" -> "pollB" [] pc = "holdB" -> "joy" [] OTHER -> "sleep"
    /\ UNCHANGED << gpio_a, gpio_b, sample, sd_card_ready, last_button_time_a,
                    last_button_time_b, last_button_a_state, last_button_b_state,
                    current_time, led_pin, oled, disk, unsynced, boots, cycles,
                    diag, sink, n_writes, write_failed, hdr, mounted, cyc >>
    /\ UnitVarsUnchanged

\* the hold without its sleep_ms(LED_DURATION_MS)
Hold_no_sleep ==
    /\ pc \in {"holdA", "holdB", "holdJ"}
    /\ now' = now
    /\ pins' = pins \ {led_pin}
    /\ last_joystick_time' = IF pc = "holdJ" THEN current_time ELSE last_joystick_time
    /\ pc' = CASE pc = "holdA" -> "pollB" [] pc = "holdB" -> "joy" [] OTHER -> "sleep"
    /\ UNCHANGED << gpio_a, gpio_b, sample, sd_card_ready, last_button_time_a,
                    last_button_time_b, last_button_a_state, last_button_b_state,
                    current_time, led_pin, oled, disk, unsynced, boots, cycles,
                    diag, sink, n_writes, write_failed, hdr, mounted, cyc >>
    /\ UnitVarsUnchanged

\* the rest of blink_led / activate_buzzer: sleep_ms(LED_DURATION_MS), pin off;
\* after the joystick's blink, last_joystick_time = current_time (line 320)
Hold ==
    /\ pc \in {"holdA", "holdB", "holdJ"}
    /\ now' = now + LED_DURATION_MS
    /\ pins' = pins \ {led_pin}
    /\ last_joystick_time' = IF pc = "holdJ" THEN current_time ELSE last_joystick_time
    /\ pc' = CASE pc = "holdA" -> "pollB" [] pc = "holdB" -> "joy" [] OTHER -> "sleep"
    /\ UNCHANGED << gpio_a, gpio_b, sample, sd_card_ready, last_button_time_a,
                    last_button_time_b, last_button_a_state, last_button_b_state,
                    current_time, led_pin, oled, disk, unsynced, boots, cycles,
                    diag, sink, n_writes, write_failed, hdr, mounted, cyc >>
    /\ UnitVarsUnchanged

\* line 324: sleep_ms(LOOP_DELAY_MS), then the next cycle
LoopSleep ==
    /\ pc = "sleep"
    /\ cycles < MaxCycles
    /\ now' = now + LOOP_DELAY_MS
    /\ cycles' = cycles + 1
    /\ cyc' = NewCycle
    /\ sample' = << >>
    /\ pc' = "pollA"
    /\ UNCHANGED << gpio_a, gpio_b, sd_card_ready, last_button_time_a,
                    last_button_time_b, last_joystick_time, last_button_a_state,
                    last_button_b_state, current_time, led_pin, pins, oled, disk,
                    unsynced, boots, diag, sink, n_writes, write_failed, hdr, mounted >>
    /\ UnitVarsUnchanged

ProgramVarsUnchanged ==
    UNCHANGED << pc, now, sd_card_ready, last_button_time_a, last_button_time_b,
                 last_joystick_time, last_button_a_state, last_button_b_state,
                 current_time, led_pin, pins, oled, disk, unsynced, boots, cycles,
                 diag, sink, n_writes, write_failed, hdr, mounted >>

\* the user presses or releases buttons
ButtonChange ==
    /\ pc \in {"pollA", "pollB"}
    /\ \E a \in BOOLEAN, b \in BOOLEAN :
          /\ << a, b >> # << gpio_a, gpio_b >>
          /\ gpio_a' = a
          /\ gpio_b' = b
          /\ cyc' = [cyc EXCEPT !.released = @ \/ (a /\ ~gpio_a) \/ (b /\ ~gpio_b)]
    /\ UNCHANGED sample
    /\ ProgramVarsUnchanged
    /\ UnitVarsUnchanged

\* power loss and restart: memory is reset, the card keeps what was synced
PowerCycle ==
    /\ boots < MaxBoots
    /\ pc # "boot"
    /\ pc' = "boot" /\ now' = 0
    /\ sd_card_ready' = FALSE
    /\ last_button_time_a' = 0 /\ last_button_time_b' = 0 /\ last_joystick_time' = 0
    /\ last_button_a_state' = FALSE /\ last_button_b_state' = FALSE
    /\ current_time' = 0 /\ led_pin' = 0 /\ pins' = {}
    /\ oled' = [l1 |-> "", l2 |-> "", l3 |-> ""]
    /\ unsynced' = << >>
    /\ boots' = boots + 1 /\ cycles' = 0
    /\ diag' = "none" /\ sink' = NoSink /\ n_writes' = 0 /\ write_failed' = FALSE
    /\ hdr' = "none" /\ mounted' = FALSE /\ cyc' = NewCycle /\ sample' = << >>
    /\ UNCHANGED << disk, gpio_a, gpio_b >>
    /\ UnitVarsUnchanged

Next ==
    \/ Boot
    \/ PollA
    \/ PollB
    \/ PollJoy
    \/ Hold
    \/ LoopSleep
    \/ ButtonChange

\* one power-on: main() and its loop, MaxCycles sleeps long
Spec == Init /\ [][Next]_vars

\* power cycles, each power-on running main() through its first loop cycle
RebootNext ==
    \/ Boot
    \/ PollA
    \/ PollB
    \/ PollJoy
    \/ Hold
    \/ ButtonChange
    \/ PowerCycle

RebootSpec == Init /\ [][RebootNext]_vars

-----------------------------------------------------------------------------
(* Unit specifications: the time guards at instants the loop's own timing  *)
(* never produces.  Both start where main() enters its loop.               *)

MainVarsUnchanged ==
    UNCHANGED << pc, gpio_b, sd_card_ready, last_button_time_b, last_button_b_state,
                 led_pin, pins, oled, disk, unsynced, boots, cycles, diag, sink,
                 n_writes, write_failed, hdr, mounted, cyc >>

\* gaps between two polls of the button (ms)
PollSteps == {1, 20, 40, 49, 50}

PollInit ==
    /\ Reset
    /\ pc = "unit" /\ now = INIT_DELAY_MS
    /\ disk = << >> /\ boots = 1
    /\ gpio_a = TRUE /\ gpio_b = TRUE

\* one call is_button_pressed(BUTTON_A, &last_button_a_state, &last_button_time_a)
UnitPoll ==
    /\ \E dt \in PollSteps, level \in BOOLEAN :
          /\ now + dt <= INIT_DELAY_MS + MaxUnitTime
          /\ now' = now + dt
          /\ gpio_a' = level
          /\ LET r == is_button_pressed(level, last_button_a_state, last_button_time_a, now')
                 edge == ~level /\ ~prev_raw
             IN  /\ last_button_a_state' = r.last_state
                 /\ last_button_time_a' = r.last_time
                 /\ ret' = r.ret
                 /\ accepted_at' = IF r.ret THEN now' ELSE accepted_at
                 /\ n_true' = IF r.ret THEN n_true + 1 ELSE n_true
                 /\ rejected' = (rejected \/ (edge /\ ~r.ret))
          /\ prev_raw' = ~level
    /\ UNCHANGED << last_joystick_time, current_time, sample, polls >>
    /\ MainVarsUnchanged

PollNext == UnitPoll

PollSpec == PollInit /\ [][PollNext]_vars

\* gaps between two motion checks (ms), and the samples tried on each axis
JoySteps == {100, 200, 300, 301}

AdcSamples == {0, JOY_MIN_THRESHOLD - 1, JOY_MIN_THRESHOLD, 2048,
               JOY_MAX_THRESHOLD, JOY_MAX_THRESHOLD + 1, ADC_MAX_VALUE}

\* lines 316-322 without the blink: the throttle test, check_joystick_movement,
\* last_joystick_time = current_time on a detection
UnitJoy ==
    /\ \E dt \in JoySteps, x \in AdcSamples, y \in AdcSamples :
          /\ now + dt <= INIT_DELAY_MS + MaxJoyTime
          /\ now' = now + dt
          /\ current_time' = now'
          /\ sample' = << x, y >>
          /\ LET fire == ThrottleElapsed(now', last_joystick_time)
                              /\ check_joystick_movement(x, y)
             IN  /\ last_joystick_time' = IF fire THEN now' ELSE last_joystick_time
                 /\ ret' = fire
                 /\ accepted_at' = IF fire THEN now' ELSE accepted_at
                 /\ n_true' = IF fire THEN n_true + 1 ELSE n_true
                 /\ rejected' = (rejected \/ (check_joystick_movement(x, y) /\ ~fire))
    /\ UNCHANGED << gpio_a, last_button_time_a, last_button_a_state, prev_raw, polls >>
    /\ MainVarsUnchanged

JoyNext == UnitJoy

JoySpec == PollInit /\ [][JoyNext]_vars

\* the accepted edge a scenario is seeded from: the first poll of PollSpec
SeedEdge == INIT_DELAY_MS + 1

\* a tracker whose last accepted edge is SeedEdge, one poll (50 ms) later: the
\* button is still held (tracked state active) or was released (inactive)
ScenarioInit ==
    /\ pc = "unit" /\ now = SeedEdge + DEBOUNCE_MS
    /\ \E held \in BOOLEAN :
          /\ gpio_a = ~held
          /\ last_button_a_state = held
          /\ prev_raw = held
    /\ last_button_time_a = SeedEdge /\ accepted_at = SeedEdge
    /\ n_true = 1 /\ ret = FALSE /\ rejected = FALSE
    /\ polls = << >>
    /\ gpio_b = TRUE /\ sd_card_ready = FALSE
    /\ last_button_time_b = 0 /\ last_joystick_time = 0
    /\ last_button_b_state = FALSE
    /\ current_time = 0 /\ led_pin = 0 /\ pins = {}
    /\ oled = [l1 |-> "", l2 |-> "", l3 |-> ""]
    /\ disk = << >> /\ unsynced = << >> /\ boots = 1 /\ cycles = 0
    /\ diag = "none" /\ sink = NoSink /\ n_writes = 0 /\ write_failed = FALSE
    /\ hdr = "none" /\ mounted = FALSE /\ cyc = NewCycle /\ sample = << >>

\* one call is_button_pressed(BUTTON_A, ...), written down in polls
ScenarioPoll ==
    /\ Len(polls) < MaxPolls
    /\ \E dt \in PollSteps, level \in BOOLEAN :
          /\ now' = now + dt
          /\ gpio_a' = level
          /\ LET r == is_button_pressed(level, last_button_a_state, last_button_time_a, now')
                 edge == ~level /\ ~prev_raw
             IN  /\ last_button_a_state' = r.last_state
                 /\ last_button_time_a' = r.last_time
                 /\ ret' = r.ret
                 /\ accepted_at' = IF r.ret THEN now' ELSE accepted_at
                 /\ n_true' = IF r.ret THEN n_true + 1 ELSE n_true
                 /\ rejected' = (rejected \/ (edge /\ ~r.ret))
                 /\ polls' = Append(polls, [t |-> now', active |-> ~level,
                                            tracked |-> last_button_a_state,
                                            ret |-> r.ret])
          /\ prev_raw' = ~level
    /\ UNCHANGED << last_joystick_time, current_time, sample >>
    /\ MainVarsUnchanged

ScenarioNext == ScenarioPoll

ScenarioSpec == ScenarioInit /\ [][ScenarioNext]_vars

-----------------------------------------------------------------------------
(* Properties                                                              *)

\* C1 (debounce): a poll taken within DEBOUNCE_MS of the last accepted edge
\* returns false; a poll returns true only when the button went from inactive
\* (at the previous poll) to active, so a held press gives one true; and every
\* such transition more than DEBOUNCE_MS after the last accepted edge does
\* return true.
C1_Debounce ==
    [][ (pc = "unit" /\ now' > now) =>
          /\ (now' - accepted_at <= DEBOUNCE_MS => ~ret')
          /\ (ret' => ~prev_raw /\ prev_raw')
          /\ (~prev_raw /\ prev_raw' /\ now' - accepted_at > DEBOUNCE_MS => ret') ]_vars

\* two presses accepted, and a bounce inside the window turned down
C1_Witness == pc = "unit" /\ ret /\ n_true = 2 /\ rejected

Count(seq, e) == Cardinality({i \in DOMAIN seq : seq[i] = e})

\* C2 (coincidence dedup): a loop cycle in which both buttons had their edge
\* accepted and neither was released emits exactly one BothButtonsPressed.
C2_CoincidenceDedup ==
    (pc = "sleep" /\ cyc.a /\ cyc.b /\ ~cyc.released /\ ~gpio_a /\ ~gpio_b)
        => Count(cyc.events, "BothButtonsPressed") = 1

\* C3 (one-way degradation): once a log_event of the session has failed its
\* write, sd_card_ready is false and stays false, and no later step calls
\* f_write or changes the file.
C3_OneWayDegradation ==
    [][ boots' = boots =>
          /\ (write_failed' => ~sd_card_ready')
          /\ (write_failed => /\ write_failed'
                              /\ n_writes' = n_writes
                              /\ disk' = disk
                              /\ unsynced' = unsynced) ]_vars

\* a log_event call made after the failed one, which returned at line 162
C3_Witness ==
    /\ write_failed
    /\ sink.event # "none" /\ ~sink.attempted /\ diag = "not_ready"

\* C4 (flush failures degrade): after a log_event whose write or whose f_sync
\* failed, sd_card_ready is false and the record was not reported as logged.
C4_FlushFailureDegrades ==
    (sink.attempted /\ (sink.wr # "ok" \/ sink.sy # "ok"))
        => (~sd_card_ready /\ diag # "logged")

\* the text display_event is given for each event
EventText(e) ==
    CASE e = "ButtonAPressed" -> "BUTTON_A_PRESSED"
      [] e = "ButtonBPressed" -> "BUTTON_B_PRESSED"
      [] e = "JoystickMoved" -> "JOYSTICK_MOVED"
      [] OTHER -> "BUZZER ACTIVATED"

Holds == {"holdA", "holdB", "holdJ"}

\* C5 (sink failures are absorbed): every step that resolves an event, whatever
\* log_event did, leaves the indicator on and the event on the display and
\* enters the hold; every step out of a hold turns the indicator off and goes
\* on to the next poll of the loop.
C5_FeedbackSurvivesSinkFailure ==
    [][ /\ (Len(cyc'.events) > Len(cyc.events) =>
              /\ pc' \in Holds
              /\ led_pin' \in pins'
              /\ oled'.l1 = "EVENT DETECTED"
              /\ oled'.l2 = EventText(cyc'.events[Len(cyc'.events)])
              /\ oled'.l3 \in {"SD: OK", "SD: ERROR"})
        /\ (pc \in Holds =>
              /\ led_pin \notin pins'
              /\ now' = now + LED_DURATION_MS
              /\ pc' \in {"pollB", "joy", "sleep"}) ]_vars

\* the write of this very event failed, and its indicator is on
C5_Witness ==
    /\ pc \in Holds /\ diag = "write_error" /\ sink.ts = now
    /\ led_pin \in pins /\ oled.l3 = "SD: ERROR"

\* C6 (mount failure): when f_mount or f_open failed at startup, for the whole
\* session sd_card_ready is false, f_write is never called, the file is
\* untouched, and every event on the display carries "SD: ERROR".
C6_MountFailureDegrades ==
    (pc # "boot" /\ ~mounted) =>
        /\ ~sd_card_ready
        /\ n_writes = 0 /\ disk = << >> /\ unsynced = << >>
        /\ diag \in {"none", "not_ready"}
        /\ (oled.l1 = "EVENT DETECTED" => oled.l3 = "SD: ERROR")

\* an event handled in a session whose mount failed
C6_Witness ==
    /\ pc \in Holds /\ ~mounted
    /\ sink.event # "none" /\ oled.l1 = "EVENT DETECTED"

\* C7 (header discipline): whatever the card holds starts with the header row,
\* and holds it once.
C7_HeaderOnceFirst ==
    Len(disk) > 0 => (disk[1] = HeaderLine /\ Count(disk, HeaderLine) = 1)

\* C8 (header write is fallible): when writing or flushing the header failed,
\* sd_card_ready is false after initialization and no record is appended.
C8_HeaderFailureDegrades ==
    (pc # "boot" /\ hdr \in {"puts_failed", "sync_failed"}) =>
        (~sd_card_ready /\ n_writes = 0)

InDeadZone(p) ==
    /\ JOY_MIN_THRESHOLD <= p[1] /\ p[1] <= JOY_MAX_THRESHOLD
    /\ JOY_MIN_THRESHOLD <= p[2] /\ p[2] <= JOY_MAX_THRESHOLD

\* C9 (motion dead-zone): a motion check whose samples both lie in
\* [JOY_MIN_THRESHOLD, JOY_MAX_THRESHOLD], bounds included, produces no event;
\* one with a sample outside, made more than LED_DURATION_MS after the last
\* trigger, produces exactly one.
C9_DeadZone ==
    [][ (pc = "unit" /\ now' > now) =>
          /\ (InDeadZone(sample') => (~ret' /\ n_true' = n_true))
          /\ ((~InDeadZone(sample') /\ now' - accepted_at > LED_DURATION_MS)
                  => (ret' /\ n_true' = n_true + 1)) ]_vars

\* after a trigger, an eligible check of the pair (1000, 3000): no event
C9_Witness ==
    /\ pc = "unit" /\ n_true = 1 /\ ~ret
    /\ sample = << JOY_MIN_THRESHOLD, JOY_MAX_THRESHOLD >>
    /\ now - last_joystick_time > LED_DURATION_MS

\* C10 (motion throttle): a motion check made LED_DURATION_MS or less after
\* last_joystick_time produces no event and leaves it unchanged, deflected or
\* not; a check that produces an event sets last_joystick_time to its own
\* time; two triggers are more than LED_DURATION_MS apart.
C10_Throttle ==
    [][ (pc = "unit" /\ now' > now) =>
          /\ (now' - last_joystick_time <= LED_DURATION_MS
                  => (~ret' /\ last_joystick_time' = last_joystick_time))
          /\ (ret' => (last_joystick_time' = now' /\ current_time' = now'))
          /\ (~ret' => last_joystick_time' = last_joystick_time)
          /\ ((ret' /\ n_true > 0) => now' - accepted_at > LED_DURATION_MS) ]_vars

\* a second trigger, after a deflection was turned down during the cool-down
C10_Witness == pc = "unit" /\ ret /\ n_true = 2 /\ rejected /\ ~InDeadZone(sample)

\* C11 (status surface reflects storage health): whenever the display shows an
\* event, its health line is "SD: OK" exactly when sd_card_ready is true; the
\* event whose own write failed is shown with "SD: ERROR".
C11_DisplayReflectsHealth ==
    /\ (oled.l1 = "EVENT DETECTED" =>
            /\ oled.l3 \in {"SD: OK", "SD: ERROR"}
            /\ (oled.l3 = "SD: OK") <=> sd_card_ready)
    /\ ((pc \in Holds /\ diag = "write_error") => oled.l3 = "SD: ERROR")

\* the red LED's event lost its write: the card was ready when the edge was
\* accepted, and the event is on the display with "SD: ERROR"
C11_Witness ==
    /\ pc = "holdA" /\ led_pin = RED_LED /\ mounted
    /\ sink.attempted /\ sink.wr # "ok" /\ diag = "write_error"
    /\ oled = [l1 |-> "EVENT DETECTED", l2 |-> "BUTTON_A_PRESSED", l3 |-> "SD: ERROR"]

\* a line of the log read back: the header, an (event, timestamp) pair, or
\* text that is neither (a truncated line)
ParseLine(l) ==
    CASE l.kind = "header" -> << "header" >>
      [] l.kind = "record" -> << l.ev, l.ts >>
      [] OTHER -> << "malformed" >>

\* the log file read back, header rows left out
ParsedLog(d, u) ==
    LET all == d \o u
        body == SelectSeq(all, LAMBDA l : l.kind # "header")
    IN  [i \in 1..Len(body) |-> ParseLine(body[i])]

\* this step calls log_event (every call resolves one event of the cycle)
LogEventCalled == Len(cyc'.events) > Len(cyc.events)

Indicators == {RED_LED, GREEN_LED, BLUE_LED, BUZZER}

\* C13 (one indicator at a time): at most one of the red, green and blue LEDs
\* and the buzzer is driven high, and a step that drives one high starts with
\* all of them low.
C13_OneIndicator ==
    [][ /\ pins \subseteq Indicators /\ pins' \subseteq Indicators
        /\ Cardinality(pins) <= 1 /\ Cardinality(pins') <= 1
        /\ (pins' \ pins # {} => pins = {}) ]_vars

\* the green LED is on for the cycle's second event; the first one's
\* indicator has been on and off
C13_Witness ==
    /\ pc = "holdB" /\ pins = {GREEN_LED}
    /\ cyc.events = << "ButtonAPressed", "ButtonBPressed" >>

LogFile == disk \o unsynced

ScenarioTime(t) == SeedEdge + 100 + t

\* the first three polls are Scenario A's: active at 0, inactive at 40,
\* active at 60
ScenarioAPolls ==
    /\ Len(polls) >= 3
    /\ polls[1].t = ScenarioTime(0) /\ polls[1].active
    /\ polls[2].t = ScenarioTime(40) /\ ~polls[2].active
    /\ polls[3].t = ScenarioTime(60) /\ polls[3].active

\* C15 as stated (Scenario A): with the last accepted edge at t = -100, the
\* polls at t = 0 (active) and t = 40 (inactive) return false and the poll at
\* t = 60 (active) returns true.
C15_ScenarioA ==
    ScenarioAPolls => (~polls[1].ret /\ ~polls[2].ret /\ polls[3].ret)

\* C15 amended (Scenario A): the poll at t = 0 returns true when the input
\* makes a transition there (the tracked state is inactive) and false only
\* when the tracker still holds the press accepted at t = -100; the poll at
\* t = 40 returns false and the poll at t = 60 returns true.
C15_ScenarioA_BothEdges ==
    ScenarioAPolls =>
        /\ (polls[1].ret <=> ~polls[1].tracked)
        /\ ~polls[2].ret
        /\ polls[3].ret

\* Scenario A played on a released button: the edges at 0 and at 60 accepted
C15_Witness ==
    /\ ScenarioAPolls /\ ~polls[1].tracked
    /\ n_true = 3 /\ accepted_at = ScenarioTime(60)

\* the indicator and the log name the README's table gives each event
IndicatorOf(e) ==
    CASE e = "ButtonAPressed" -> RED_LED
      [] e = "ButtonBPressed" -> GREEN_LED
      [] e = "JoystickMoved" -> BLUE_LED
      [] e = "BothButtonsPressed" -> BUZZER

LogNameOf(e) ==
    CASE e = "ButtonAPressed" -> "BUTTON_A_PRESSED"
      [] e = "ButtonBPressed" -> "BUTTON_B_PRESSED"
      [] e = "JoystickMoved" -> "JOYSTICK_MOVED"
      [] e = "BothButtonsPressed" -> "BUZZER_ACTIVATED"

\* C16 (event mapping): a step that resolves an event drives that event's
\* indicator and no other, and calls log_event with that event's name; when
\* the call logs, the line appended carries that name; and no indicator goes
\* on in a step that resolves no event.
C16_EventMapping ==
    [][ /\ (LogEventCalled =>
               LET e == cyc'.events[Len(cyc'.events)]
               IN  /\ pins' = {IndicatorOf(e)}
                   /\ led_pin' = IndicatorOf(e)
                   /\ sink'.event = LogNameOf(e)
                   /\ (diag' = "logged" =>
                          ParsedLog(disk', unsynced')
                              = Append(ParsedLog(disk, unsynced), << LogNameOf(e), now >>)))
        /\ (pins' \ pins # {} => LogEventCalled) ]_vars

\* the buzzer's event and then the joystick's, both logged, the blue LED on
C16_Witness ==
    /\ pc = "holdJ" /\ pins = {BLUE_LED}
    /\ cyc.events = << "BothButtonsPressed", "JoystickMoved" >>
    /\ ParsedLog(disk, unsynced)
           = << << "BUZZER_ACTIVATED", INIT_DELAY_MS >>,
                << "JOYSTICK_MOVED", INIT_DELAY_MS + LED_DURATION_MS >> >>

\* C17 (strict tie-break): a poll that reads the button active while the
\* tracked state is inactive, made exactly DEBOUNCE_MS after
\* last_button_time_a, returns false and leaves last_button_time_a unchanged;
\* made DEBOUNCE_MS + 1 after it, it returns true.
C17_StrictTieBreak ==
    [][ (pc = "unit" /\ now' > now /\ ~last_button_a_state /\ ~gpio_a') =>
          /\ (now' - last_button_time_a = DEBOUNCE_MS =>
                 (~ret' /\ last_button_time_a' = last_button_time_a))
          /\ (now' - last_button_time_a = DEBOUNCE_MS + 1 =>
                 (ret' /\ last_button_time_a' = now')) ]_vars

\* the last poll saw a rising edge exactly DEBOUNCE_MS after an edge this run
\* accepted, and turned it down
C17_Witness ==
    /\ Len(polls) = 3 /\ polls[1].ret
    /\ polls[3].active /\ ~polls[3].tracked /\ ~polls[3].ret
    /\ polls[3].t - polls[1].t = DEBOUNCE_MS
    /\ last_button_time_a = polls[1].t

\* C18 (frame of the tracker): a poll changes last_button_time_a only when it
\* returns true, and then to its own time; every poll, whatever it returns,
\* leaves the tracked state equal to the raw state it read; so once a bounce
\* has been suppressed, a press polled after a release and more than
\* DEBOUNCE_MS after the last accepted edge is accepted.
C18_TrackerFrame ==
    [][ (pc = "unit" /\ now' > now) =>
          /\ (~ret' => last_button_time_a' = last_button_time_a)
          /\ (ret' => last_button_time_a' = now')
          /\ last_button_a_state' = ~gpio_a'
          /\ ((rejected /\ ~last_button_a_state /\ ~gpio_a'
                  /\ now' - accepted_at > DEBOUNCE_MS) => ret') ]_vars

\* a bounce was suppressed, the button was released, and the press polled
\* now, outside the window of the one accepted edge before it, is accepted
C18_Witness ==
    /\ pc = "unit" /\ rejected /\ ret /\ n_true = 2
    /\ last_button_a_state /\ prev_raw
    /\ last_button_time_a = now /\ accepted_at = now

\* C19 (combination rule): an accepted edge on A gives exactly one event,
\* BothButtonsPressed when B's pin reads active at that instant and
\* ButtonAPressed when it does not; the same for an accepted edge on B; and a
\* button whose tracked state is already active gives no event while it stays
\* held, so pressing A while B is held gives no further event for B.
C19_CombinationRule ==
    [][ /\ ((pc = "pollA" /\ pc' = "holdA") =>
               cyc'.events = Append(cyc.events, IF ~gpio_b THEN "BothButtonsPressed"
                                                          ELSE "ButtonAPressed"))
        /\ ((pc = "pollB" /\ pc' = "holdB") =>
               cyc'.events = Append(cyc.events, IF ~gpio_a THEN "BothButtonsPressed"
                                                          ELSE "ButtonBPressed"))
        /\ ((pc = "pollA" /\ pc' # pc /\ last_button_a_state /\ ~gpio_a) =>
               (pc' = "pollB" /\ cyc'.events = cyc.events))
        /\ ((pc = "pollB" /\ pc' # pc /\ last_button_b_state /\ ~gpio_b) =>
               (pc' = "joy" /\ cyc'.events = cyc.events)) ]_vars

\* B was reported in the first cycle and is still held; A pressed in the
\* second cycle gave BothButtonsPressed, and the poll of B that followed gave
\* nothing
C19_Witness ==
    /\ pc = "joy" /\ cycles = 1 /\ ~gpio_a /\ ~gpio_b
    /\ cyc.events = << "BothButtonsPressed" >>
    /\ cyc.a /\ ~cyc.b /\ ~cyc.released
    /\ last_button_b_state /\ last_button_time_b < last_button_time_a
    /\ last_button_time_b >= INIT_DELAY_MS

=============================================================================
